---- MODULE Spec2Model ----
(***************************************************************************)
(* Model of the two polling jobs of risk-analysis-volatility:              *)
(*   - volatility_tracker.py : the Volatility Backfill Job                 *)
(*       (VolatilityTracker, run_tracker, the __main__ scheduler loop)     *)
(*   - usdt_scraper.py       : the Price Poller (CryptoScraper)            *)
(*                                                                         *)
(* Five specifications share the definitions below:                        *)
(*   SpecFetch  one call of fetch_coingecko_data, one HTTP response a step *)
(*   Spec       the backfill process: start-up, run(), the per-asset loop, *)
(*              the hourly scheduler, with database and HTTP faults        *)
(*   SpecRerun  the backfill process in a fault-free environment           *)
(*   SpecPoller the price poller loop                                      *)
(*   SpecVolatility  the first run, on a candle with explicit prices       *)
(*                                                                         *)
(* Calendar dates are integers; a candle timestamp ts falls on the date    *)
(* ts \div PartsPerDay.  The 365-day horizon is scaled down to LOOKBACK.   *)
(***************************************************************************)
EXTENDS Integers, Sequences, FiniteSets, TLC

VARIABLES
    \* ---- one call of fetch_coingecko_data (SpecFetch)
    fpc,            \* "idle" | "loop" | "returned"
    fsymbol,        \* the symbol argument
    fdays,          \* the days argument ("30" | "365")
    current_retry,  \* the local current_retry
    flog,           \* the responses received so far: one entry per requests.get
    fsleeps,        \* the time.sleep durations of the call, in order
    fresult,        \* the returned value
    \* ---- the backfill process (Spec, SpecRerun)
    mpc,            \* position of the process: "boot" | "run" | "loop" | "sched" | "crashed"
    conn,           \* self.conn: "none" | "open" | "closed"
    txn,            \* the connection's transaction: "idle" | "open" | "aborted"
    table,          \* the rows of "VolatilityData"
    api,            \* what the candle endpoint holds today, per window
    todo,           \* the assets run() has still to visit (the shuffled rest)
    runs,           \* run_tracker calls started so far
    attempted,      \* per asset: process_asset calls made by the current run()
    last,           \* what the last loop iteration of run() did
    maint,          \* update_missing_mse in the current run(): "none" | "done" (returned)
                    \* | "fault" (a statement failed) | "raised" (execute_values raised)
    snap,           \* the table as the first completed run() left it
    \* ---- the price poller (SpecPoller)
    ppc,            \* "start" | "fetch" | "insert" | "sleep" | "errsleep" | "exited"
    pconn,          \* the poller's connection: "none" | "open" | "closed"
    ptxn,           \* its transaction: "idle" | "aborted"
    prices,         \* number of "PriceData" rows committed
    ticks,          \* ticks begun
    pevent,         \* what the last poller step was
    pexit           \* how run() was left: "none" | "return" | "break" | "raised"

fvars == <<fpc, fsymbol, fdays, current_retry, flog, fsleeps, fresult>>
tvars == <<mpc, conn, txn, table, todo, runs, attempted, last, maint, snap>>
pvars == <<ppc, pconn, ptxn, prices, ticks, pevent, pexit>>
vars == <<fvars, tvars, api, pvars>>

(***************************************************************************)
(* Bounds of the model and constants of the program                        *)
(***************************************************************************)
\* the 365-day horizon of process_asset / get_last_update_date, scaled down
LOOKBACK == 2
\* most candles in one response of the candle endpoint
MaxCandles == 2
\* run_tracker calls the process makes (the first one and the scheduled ones)
MaxRuns == 2
\* poller ticks explored
MaxTicks == 4
\* max_retries of fetch_coingecko_data
max_retries == 3
\* largest binary logarithm of an explicit price (prices are 2^-MaxLog .. 2^MaxLog)
MaxLog == 1
\* the annualisation factor T of calculate_volatility
T == 365
\* fewest values for which Series.kurtosis() is not NaN
KurtosisMinCount == 4

\* candle timestamps per calendar day
PartsPerDay == 2
Today == LOOKBACK + 1
Dates == 0..Today
DayOf(ts) == ts \div PartsPerDay

\* COIN_ID_MAP, cut to two of its eight keys
COIN_ID_MAP == [DAI |-> "dai", USDT |-> "tether"]
\* the symbols of the model: two mapped ones and one without a mapping
Symbols == {"DAI", "USDT", "XYZ"}
Windows == {"30", "365"}

\* the rows of the "Asset" table: <<id, symbol>>
Assets == {<<1, "DAI">>, <<2, "USDT">>, <<3, "XYZ">>}
AssetIds == {a[1] : a \in Assets}

(***************************************************************************)
(* The candle endpoint                                                     *)
(***************************************************************************)
\* the timestamps a window can hold: the 30-day window is the fine one
\* (several candles a day, the latest day only), the 365-day window the coarse
\* one (the first candle of each day of the horizon)
Slots(days) ==
    IF days = "30"
    THEN {Today * PartsPerDay, Today * PartsPerDay + 1}
    ELSE {d * PartsPerDay : d \in (Today - LOOKBACK)..Today}

SetMin(S) == CHOOSE x \in S : \A y \in S : x <= y
SetMax(S) == CHOOSE x \in S : \A y \in S : y <= x

RECURSIVE SortedSeq(_)
SortedSeq(S) ==
    IF S = {} THEN <<>>
    ELSE LET m == SetMin(S) IN <<m>> \o SortedSeq(S \ {m})

\* a candle of the response: its timestamp and its OHLC values. A named candle
\* has valid values (0 < low <= open, close <= high) identified by the window
\* and the timestamp they came from.
Candle(days, ts) == [ts |-> ts, ohlc |-> <<days, ts>>]

\* explicit prices: zero, or sign * 2^e with e on a grid
Px(sign, e) == [sign |-> sign, e |-> e]
Prices ==
    {Px(0, 0)} \cup {Px(sg, e) : sg \in {-1, 1}, e \in (0 - MaxLog)..MaxLog}
\* a candle with explicit values: <<"px", open, high, low, close>>
PxRows == {<<"px", o, h, l, c>> : o \in Prices, h \in Prices, l \in Prices, c \in Prices}
PxCandle(ts, row) == [ts |-> ts, ohlc |-> row]

CandleTable(days, S) ==
    LET s == SortedSeq(S) IN [i \in 1..Len(s) |-> Candle(days, s[i])]

\* the JSON arrays the endpoint may hold for a window, ascending in time
Family(days) ==
    {CandleTable(days, S) : S \in {U \in SUBSET Slots(days) : Cardinality(U) <= MaxCandles}}

ApiStates ==
    {[w \in Windows |-> IF w = "30" THEN a ELSE b] : a \in Family("30"), b \in Family("365")}

\* an HTTP exchange of requests.get: status 0 stands for an exception raised
\* by requests.get itself (no response)
Responses ==
    {[status |-> 200, body |-> b, retry_after |-> "absent"] : b \in {"ok", "bad"}}
    \cup {[status |-> 429, body |-> "", retry_after |-> r] : r \in {"absent", "5", "x"}}
    \cup {[status |-> s, body |-> "", retry_after |-> "absent"] : s \in {500, 0}}

None == [ok |-> FALSE, data |-> <<>>]
Some(df) == [ok |-> TRUE, data |-> df]

\* int(response.headers.get("Retry-After", "60"))
RetryAfter(resp) ==
    IF resp.retry_after = "absent" THEN [ok |-> TRUE, val |-> 60]
    ELSE IF resp.retry_after = "5" THEN [ok |-> TRUE, val |-> 5]
    ELSE [ok |-> FALSE, val |-> 0]

\* faulty variant of the mapping test: any known ticker symbol passes
MappedAny(symbol) == symbol \in Symbols

\* the `symbol not in COIN_ID_MAP` test
Mapped(symbol) == symbol \in DOMAIN COIN_ID_MAP

\* faulty variant of the loop body: every status but 200 is waited out and
\* retried, not only 429
FetchAttemptRetryAny(retry, resp, df) ==
    IF resp.status = 200
    THEN [ret |-> TRUE, result |-> IF resp.body = "ok" THEN Some(df) ELSE None,
          sleep |-> 0, retry |-> retry]
    ELSE [ret |-> FALSE, result |-> None, sleep |-> 60, retry |-> retry + 1]

\* one pass of the while loop body of fetch_coingecko_data on response resp
\* whose 200-body decodes to df: whether the call returns, what it returns,
\* how long it sleeps, and the new current_retry
FetchAttempt(retry, resp, df) ==
    IF resp.status = 0
    THEN [ret |-> TRUE, result |-> None, sleep |-> 0, retry |-> retry]
    ELSE IF resp.status = 200
    THEN [ret |-> TRUE, result |-> IF resp.body = "ok" THEN Some(df) ELSE None,
          sleep |-> 0, retry |-> retry]
    ELSE IF resp.status = 429
    THEN IF RetryAfter(resp).ok
         THEN [ret |-> FALSE, result |-> None, sleep |-> RetryAfter(resp).val,
               retry |-> retry + 1]
         ELSE [ret |-> TRUE, result |-> None, sleep |-> 0, retry |-> retry]
    ELSE [ret |-> TRUE, result |-> None, sleep |-> 0, retry |-> retry]

\* the whole call on a script of responses (the i-th request gets script[i]):
\* the value returned, the responses consumed and the sleeps
RECURSIVE FetchLoop(_, _, _, _, _)
FetchLoop(retry, script, df, log, sleeps) ==
    IF ~(retry < max_retries) \/ script = <<>>
    THEN [result |-> None, log |-> log, sleeps |-> sleeps]
    ELSE LET r == FetchAttempt(retry, Head(script), df)
             log2 == Append(log, Head(script))
         IN IF r.ret
            THEN [result |-> r.result, log |-> log2, sleeps |-> sleeps]
            ELSE FetchLoop(r.retry, Tail(script), df, log2, Append(sleeps, r.sleep))

fetch_coingecko_data(symbol, script, df) ==
    IF ~Mapped(symbol)
    THEN [result |-> None, log |-> <<>>, sleeps |-> <<>>]
    ELSE FetchLoop(0, script, df, <<>>, <<>>)

(***************************************************************************)
(* The "VolatilityData" table and the queries of VolatilityTracker         *)
(***************************************************************************)
NullMse == <<>>
\* calculate_daily_mse: a value determined by the row's OHLC
calculate_daily_mse(ohlc) == <<ohlc>>

\* faulty variant of calculate_volatility: term2 is ln(low/close) * ln(high/open)
calculate_volatility_mixed(ohlc) ==
    IF ohlc[1] # "px"
    THEN [real |-> TRUE, val |-> <<"vol", ohlc>>]
    ELSE LET open == ohlc[2]
             high == ohlc[3]
             low == ohlc[4]
             close == ohlc[5]
             finite == /\ open.sign # 0
                       /\ high.sign = open.sign
                       /\ low.sign = open.sign
                       /\ close.sign = open.sign
             term1 == (high.e - close.e) * (high.e - open.e)
             term2 == (low.e - close.e) * (high.e - open.e)
         IN IF finite /\ term1 + term2 >= 0
            THEN [real |-> TRUE, val |-> <<"sqrt", T * (term1 + term2)>>]
            ELSE [real |-> FALSE, val |-> <<"nan">>]

\* calculate_volatility on one row: sqrt(T * (term1 + term2)). With explicit
\* prices sign * 2^e, ln(x / y) is (ex - ey) * ln 2 when x and y have the same
\* non-zero sign, and not finite otherwise; the result is a real number when
\* the four logarithms are finite and term1 + term2 >= 0 (val: the radicand in
\* units of (ln 2)^2), and NaN or an infinity otherwise. For a named candle the
\* result is the real number its values determine.
calculate_volatility(ohlc) ==
    IF ohlc[1] # "px"
    THEN [real |-> TRUE, val |-> <<"vol", ohlc>>]
    ELSE LET open == ohlc[2]
             high == ohlc[3]
             low == ohlc[4]
             close == ohlc[5]
             finite == /\ open.sign # 0
                       /\ high.sign = open.sign
                       /\ low.sign = open.sign
                       /\ close.sign = open.sign
             term1 == (high.e - close.e) * (high.e - open.e)
             term2 == (low.e - close.e) * (low.e - open.e)
         IN IF finite /\ term1 + term2 >= 0
            THEN [real |-> TRUE, val |-> <<"sqrt", T * (term1 + term2)>>]
            ELSE [real |-> FALSE, val |-> <<"nan">>]

\* Series.kurtosis() over a set of volatility values: values that are not real
\* are skipped, fewer than KurtosisMinCount values give NaN, otherwise the
\* statistic of exactly these values
kurtosis(vols) ==
    LET reals == {v \in vols : v.real}
    IN IF Cardinality(reals) < KurtosisMinCount
       THEN [nan |-> TRUE, over |-> {}]
       ELSE [nan |-> FALSE, over |-> reals]

\* a row that was in the table before the process started, its mse unset or
\* set, its kurtosis the one of the series the seed rows S of the asset form
SeedRow(a, d, null, S) ==
    [assetId |-> a, date |-> d, ohlc |-> <<"seed", d>>,
     volatility |-> calculate_volatility(<<"seed", d>>),
     kurtosis |-> kurtosis({calculate_volatility(<<"seed", x>>) : x \in S}),
     mse |-> IF null THEN NullMse ELSE calculate_daily_mse(<<"seed", d>>)]

\* the tuple store_volatility_data builds for one candle of its data frame
\* (row['date'].date() is the calendar date of the candle's timestamp), k the
\* kurtosis of the data frame
InsertTuple(a, c, k) ==
    [assetId |-> a, date |-> DayOf(c.ts), ohlc |-> c.ohlc,
     volatility |-> calculate_volatility(c.ohlc),
     kurtosis |-> k,
     mse |-> calculate_daily_mse(c.ohlc)]

RowsOf(tbl, a) == {r \in tbl : r.assetId = a}

\* faulty variant of has_today_data: the day before today is tested
has_today_data_yesterday(tbl, a) == \E r \in tbl : r.assetId = a /\ r.date = Today - 1

\* SELECT EXISTS(... WHERE "assetId"::text = %s AND "date" = today)
has_today_data(tbl, a) == \E r \in tbl : r.assetId = a /\ r.date = Today

\* faulty variant of get_last_update_date: the start of the horizon, whatever
\* the asset has recorded
get_last_update_date_horizon(tbl, a) == Today - LOOKBACK

\* SELECT MAX("date") ..., else today - 365 days
get_last_update_date(tbl, a) ==
    IF RowsOf(tbl, a) = {} THEN Today - LOOKBACK
    ELSE SetMax({r.date : r \in RowsOf(tbl, a)})

\* faulty variant of get_missing_dates: fetchone() for fetchall(), only the
\* earliest missing date is returned
get_missing_dates_first(tbl, a, start_date, end_date) ==
    LET all == {d \in start_date..end_date :
                    d \notin {r.date : r \in RowsOf(tbl, a)}}
    IN IF all = {} THEN {} ELSE {SetMin(all)}

\* faulty variant of get_missing_dates: the subquery lacks the assetId filter
get_missing_dates_any_asset(tbl, a, start_date, end_date) ==
    {d \in start_date..end_date :
        d \notin {r.date : r \in {x \in tbl :
                                    start_date <= x.date /\ x.date <= end_date}}}

\* generate_series(start, end) minus the dates recorded BETWEEN start AND end
get_missing_dates(tbl, a, start_date, end_date) ==
    {d \in start_date..end_date :
        d \notin {r.date : r \in {x \in RowsOf(tbl, a) :
                                    start_date <= x.date /\ x.date <= end_date}}}

\* DataFrame.drop_duplicates(subset=['date']): the first row of each timestamp
RECURSIVE drop_duplicates(_)
drop_duplicates(df) ==
    IF df = <<>> THEN <<>>
    ELSE LET rest == SelectSeq(Tail(df), LAMBDA c : c.ts # Head(df).ts)
         IN <<Head(df)>> \o drop_duplicates(rest)

\* faulty variant of the concatenation: the historical table comes first
concat_historical_first(r30, r365) ==
    (IF r365.ok THEN r365.data ELSE <<>>) \o (IF r30.ok THEN r30.data ELSE <<>>)

\* pd.concat(dfs) of the fetches that returned a table, recent one first
concat(r30, r365) ==
    (IF r30.ok THEN r30.data ELSE <<>>) \o (IF r365.ok THEN r365.data ELSE <<>>)

\* line 149: pd.concat(dfs).drop_duplicates(subset=['date']) on the two fetch
\* results
concat_drop_duplicates(r30, r365) == drop_duplicates(concat(r30, r365))

\* faulty variant of the filter: the whole fetched table is kept
isin_all(df, missing) == df

\* df[df['date'].dt.date.isin(missing_dates)]
isin_missing(df, missing) == SelectSeq(df, LAMBDA c : DayOf(c.ts) \in missing)

\* faulty variant of the insert: no conflict clause and no key, every row lands
InsertNoConflictCheck(tbl, rows) == tbl \cup {rows[i] : i \in 1..Len(rows)}

\* INSERT ... VALUES rows ON CONFLICT ON CONSTRAINT "VolatilityData_pkey" DO
\* NOTHING: rows are taken in order, one whose (assetId, date) is present is skipped
RECURSIVE InsertOnConflictDoNothing(_, _)
InsertOnConflictDoNothing(tbl, rows) ==
    IF rows = <<>> THEN tbl
    ELSE LET r == Head(rows)
             conflict == \E x \in tbl : x.assetId = r.assetId /\ x.date = r.date
         IN InsertOnConflictDoNothing(IF conflict THEN tbl ELSE tbl \cup {r}, Tail(rows))

\* store_volatility_data on a non-empty data frame, the statement succeeding:
\* the volatility of each row, the kurtosis of the volatility column of df,
\* then the insert
store_volatility_data(tbl, a, df) ==
    LET k == kurtosis({calculate_volatility(df[i].ohlc) : i \in 1..Len(df)})
    IN InsertOnConflictDoNothing(tbl, [i \in 1..Len(df) |-> InsertTuple(a, df[i], k)])

\* the assets update_missing_mse has rows to update for
NullAssets(tbl) == {r.assetId : r \in {x \in tbl : x.mse = NullMse}}

\* update_missing_mse. fault: its first SELECT fails. Otherwise, with no row
\* whose mse is NULL the loop body never runs and the pass returns. With such
\* a row, execute_values formats each tuple of data_to_update with the template
\* '(%(0)s, %(1)s, %(2)s)': named placeholders are looked up in the tuple by
\* string key, which raises TypeError before any UPDATE is sent; the except
\* clause rolls back and re-raises.
update_missing_mse(tbl, fault) ==
    IF fault THEN [raised |-> TRUE, table |-> tbl]
    ELSE IF NullAssets(tbl) = {} THEN [raised |-> FALSE, table |-> tbl]
    ELSE [raised |-> TRUE, table |-> tbl]

(***************************************************************************)
(* process_asset                                                           *)
(***************************************************************************)
\* A database fault of one process_asset call: the statement it hits and what
\* it does ("sql": the statement fails and the transaction is aborted;
\* "conn": the connection is lost, psycopg2 marks it closed)
NoFault == [at |-> "none", kind |-> "none"]
Faults ==
    {NoFault,
     [at |-> "connect", kind |-> "conn"],
     [at |-> "has_today", kind |-> "sql"],
     [at |-> "last_update", kind |-> "conn"],
     [at |-> "missing", kind |-> "sql"],
     [at |-> "store", kind |-> "sql"],
     [at |-> "store", kind |-> "conn"]}

\* the except clause of process_asset: self.conn.rollback(). On a closed
\* connection rollback raises and the exception leaves process_asset.
Handler(tbl, c, t, requests, missing) ==
    IF c = "open"
    THEN [table |-> tbl, conn |-> c, txn |-> "idle", outcome |-> "rolled_back",
          escaped |-> FALSE, requests |-> requests, missing |-> missing]
    ELSE [table |-> tbl, conn |-> c, txn |-> t, outcome |-> "rollback_failed",
          escaped |-> TRUE, requests |-> requests, missing |-> missing]

\* a statement raising inside the try block: the fault's effect, then the handler
Raise(tbl, c, t, kind, requests, missing) ==
    IF kind = "conn" THEN Handler(tbl, "closed", t, requests, missing)
    ELSE Handler(tbl, c, "aborted", requests, missing)

Return(tbl, c, t, outcome, requests, missing) ==
    [table |-> tbl, conn |-> c, txn |-> t, outcome |-> outcome, escaped |-> FALSE,
     requests |-> requests, missing |-> missing]

\* process_asset(asset_id, symbol) from table tbl, connection c, transaction t,
\* under database fault f, the two fetches answered by the scripts s30 and s365
process_asset(tbl, c, t, a, symbol, f, s30, s365, data) ==
    IF c # "open" /\ f.at = "connect"
    THEN \* connect_db raises inside has_today_data
         Handler(tbl, c, t, 0, {})
    ELSE IF (c = "open" /\ t = "aborted") \/ f.at = "has_today"
    THEN Raise(tbl, "open", IF c = "open" THEN t ELSE "idle",
               IF f.at = "has_today" THEN f.kind ELSE "sql", 0, {})
    ELSE IF has_today_data(tbl, a)
    THEN Return(tbl, "open", "open", "has_today", 0, {})
    ELSE IF f.at = "last_update"
    THEN Raise(tbl, "open", "open", f.kind, 0, {})
    ELSE
    LET last_update == get_last_update_date(tbl, a)
        r30 == fetch_coingecko_data(symbol, s30, data["30"])
        r365 == fetch_coingecko_data(symbol, s365, data["365"])
        requests == Len(r30.log) + Len(r365.log)
        df == concat_drop_duplicates(r30.result, r365.result)
        start == IF last_update > Today - LOOKBACK THEN last_update ELSE Today - LOOKBACK
        missing_dates == get_missing_dates(tbl, a, start, Today)
        df_missing == isin_missing(df, missing_dates)
    IN  IF ~r30.result.ok /\ ~r365.result.ok
        THEN Return(tbl, "open", "open", "no_data", requests, {})
        ELSE IF f.at = "missing"
        THEN Raise(tbl, "open", "open", f.kind, requests, {})
        ELSE IF missing_dates = {}
        THEN Return(tbl, "open", "open", "no_missing", requests, missing_dates)
        ELSE IF df_missing = <<>>
        THEN Return(tbl, "open", "open", "nothing_new", requests, missing_dates)
        ELSE IF f.at = "store"
        THEN \* store_volatility_data rolls back and re-raises
             Raise(tbl, "open", "open", f.kind, requests, missing_dates)
        ELSE Return(store_volatility_data(tbl, a, df_missing), "open", "idle",
                    "stored", requests, missing_dates)

(***************************************************************************)
(* The backfill process: __main__, run_tracker, run()                      *)
(***************************************************************************)
R200 == [status |-> 200, body |-> "ok", retry_after |-> "absent"]
R429 == [status |-> 429, body |-> "", retry_after |-> "absent"]
R500 == [status |-> 500, body |-> "", retry_after |-> "absent"]

\* the ways the endpoint answers one fetch of a run: with the table, or with
\* a server error (SpecFetch explores the other answers)
RunScripts == {<<R200>>, <<R500>>}

\* the inputs of one loop iteration that can differ in effect: a connect fault
\* needs a connection to open, and a call that ends before the fetches reads no
\* script
Effective(asset, f, s30, s365) ==
    /\ f.at = "connect" => conn # "open"
    /\ ~Mapped(asset[2]) => f = NoFault
    /\ has_today_data(table, asset[1]) => f.at \in {"none", "connect", "has_today"}
    /\ (\/ ~Mapped(asset[2])
        \/ f.at \in {"connect", "has_today", "last_update"}
        \/ has_today_data(table, asset[1]))
       => (s30 = <<R200>> /\ s365 = <<R200>>)

NoCall == [asset |-> 0, kind |-> "none", outcome |-> "none", escaped |-> FALSE,
           requests |-> 0, missing |-> {}]

NoSnap == [taken |-> FALSE, rows |-> {}]
\* the table as the first run_tracker call left it, when it is observed
TakeSnap(observe, tbl) ==
    IF observe /\ runs = 1 THEN [taken |-> TRUE, rows |-> tbl] ELSE snap

\* the dates rows may hold before the process starts: one older than the
\* horizon, yesterday, today
SeedDates == {Today - LOOKBACK - 1, Today - 1, Today}
SeedTables == {{SeedRow(1, d, null, S) : d \in S} : S \in SUBSET SeedDates, null \in BOOLEAN}

\* line 407: the first run_tracker() call, outside any try
Boot(ok) ==
    /\ mpc = "boot"
    /\ runs' = runs + 1
    /\ IF ok
       THEN mpc' = "run" /\ conn' = "open"
       ELSE mpc' = "crashed" /\ conn' = "none"
    /\ UNCHANGED <<txn, table, todo, attempted, last, maint, snap, api, fvars, pvars>>

\* run() up to the loop: connect_db, update_missing_mse, fetch_assets, shuffle.
\* fault: "mse" (a statement of update_missing_mse fails), "assets" (the
\* SELECT of fetch_assets fails) or "none". An exception here is the "Fatal
\* error" of run(): the loop is not entered, the finally clause closes the
\* connection and run_tracker returns.
RunStart(fault) ==
    /\ mpc = "run"
    /\ LET m == update_missing_mse(table, fault = "mse")
       IN /\ table' = m.table
          /\ maint' = IF fault = "mse" THEN "fault" ELSE IF m.raised THEN "raised" ELSE "done"
          /\ IF m.raised \/ fault = "assets"
             THEN mpc' = "sched" /\ todo' = {} /\ conn' = "closed" /\ txn' = "idle"
             ELSE mpc' = "loop" /\ todo' = Assets /\ conn' = conn /\ txn' = "open"
    /\ attempted' = [a \in AssetIds |-> 0]
    /\ last' = NoCall
    /\ UNCHANGED <<runs, snap, api, fvars, pvars>>

\* faulty variant of the loop iteration: run() has no inner try, an exception
\* leaving process_asset ends the loop
RunAssetAbort(asset, f, s30, s365) ==
    /\ mpc = "loop"
    /\ asset \in todo
    /\ IF Mapped(asset[2])
       THEN LET res == process_asset(table, conn, txn, asset[1], asset[2], f, s30, s365, api)
            IN /\ table' = res.table
               /\ conn' = res.conn
               /\ txn' = res.txn
               /\ todo' = IF res.escaped THEN {} ELSE todo \ {asset}
               /\ attempted' = [attempted EXCEPT ![asset[1]] = @ + 1]
               /\ last' = [asset |-> asset[1], kind |-> "processed",
                           outcome |-> res.outcome, escaped |-> res.escaped,
                           requests |-> res.requests, missing |-> res.missing]
       ELSE /\ last' = [NoCall EXCEPT !.asset = asset[1], !.kind = "skipped"]
            /\ todo' = todo \ {asset}
            /\ UNCHANGED <<table, conn, txn, attempted>>
    /\ UNCHANGED <<mpc, runs, maint, snap, api, fvars, pvars>>

\* one iteration of the for loop of run() on the next asset of the shuffled list
RunAsset(asset, f, s30, s365) ==
    /\ mpc = "loop"
    /\ asset \in todo
    /\ todo' = todo \ {asset}
    /\ IF Mapped(asset[2])
       THEN LET res == process_asset(table, conn, txn, asset[1], asset[2], f, s30, s365, api)
            IN /\ table' = res.table
               /\ conn' = res.conn
               /\ txn' = res.txn
               /\ attempted' = [attempted EXCEPT ![asset[1]] = @ + 1]
               /\ last' = [asset |-> asset[1], kind |-> "processed",
                           outcome |-> res.outcome, escaped |-> res.escaped,
                           requests |-> res.requests, missing |-> res.missing]
       ELSE /\ last' = [NoCall EXCEPT !.asset = asset[1], !.kind = "skipped"]
            /\ UNCHANGED <<table, conn, txn, attempted>>
    /\ UNCHANGED <<mpc, runs, maint, snap, api, fvars, pvars>>

\* the loop is over: the finally clause of run() closes the connection
RunEnd(observe) ==
    /\ mpc = "loop"
    /\ todo = {}
    /\ mpc' = "sched"
    /\ conn' = "closed"
    /\ txn' = "idle"
    /\ snap' = TakeSnap(observe, table)
    /\ UNCHANGED <<table, todo, runs, attempted, last, maint, api, fvars, pvars>>

\* the scheduler loop of __main__: an hourly run_tracker() inside try/except
SchedTick(ok) ==
    /\ mpc = "sched"
    /\ runs < MaxRuns
    /\ runs' = runs + 1
    /\ IF ok
       THEN mpc' = "run" /\ conn' = "open"
       ELSE mpc' = "sched" /\ conn' = "none"
    /\ txn' = "idle"
    /\ UNCHANGED <<table, todo, attempted, last, maint, snap, api, fvars, pvars>>

FetchIdle ==
    /\ fpc = "idle"
    /\ fsymbol = "DAI"
    /\ fdays = "30"
    /\ current_retry = 0
    /\ flog = <<>>
    /\ fsleeps = <<>>
    /\ fresult = None

PollerIdle ==
    /\ ppc = "start"
    /\ pconn = "none"
    /\ ptxn = "idle"
    /\ prices = 0
    /\ ticks = 0
    /\ pevent = "none"
    /\ pexit = "none"

TrackerIdle ==
    /\ mpc = "boot"
    /\ conn = "none"
    /\ txn = "idle"
    /\ todo = {}
    /\ runs = 0
    /\ attempted = [a \in AssetIds |-> 0]
    /\ last = NoCall
    /\ maint = "none"
    /\ snap = NoSnap

Init ==
    /\ TrackerIdle
    /\ table \in SeedTables
    /\ api \in ApiStates
    /\ FetchIdle
    /\ PollerIdle

\* the loop of run() takes the next asset; the environment picks the fault
\* and the answers
RunIteration ==
    \E asset \in Assets : \E f \in Faults : \E s30 \in RunScripts, s365 \in RunScripts :
        Effective(asset, f, s30, s365) /\ RunAsset(asset, f, s30, s365)

Next ==
    \/ \E ok \in BOOLEAN : Boot(ok)
    \/ \E fault \in {"none", "mse", "assets"} : RunStart(fault)
    \/ RunIteration
    \/ RunEnd(FALSE)
    \/ \E ok \in BOOLEAN : SchedTick(ok)

Spec == Init /\ [][Next]_vars

\* the same process where every database statement and every fetch succeeds
NextRerun ==
    \/ Boot(TRUE)
    \/ RunStart("none")
    \/ \E asset \in Assets : RunAsset(asset, NoFault, <<R200>>, <<R200>>)
    \/ RunEnd(TRUE)
    \/ SchedTick(TRUE)

SpecRerun == Init /\ [][NextRerun]_vars

\* the first run of the process on an empty table, the 30-day window holding
\* one candle of today with explicit prices, nothing failing
InitVolatility ==
    /\ TrackerIdle
    /\ table = {}
    /\ api \in {[w \in Windows |-> IF w = "30" THEN <<PxCandle(Today * PartsPerDay, row)>>
                                                ELSE <<>>] : row \in PxRows}
    /\ FetchIdle
    /\ PollerIdle

NextVolatility ==
    \/ Boot(TRUE)
    \/ RunStart("none")
    \/ RunAsset(<<1, "DAI">>, NoFault, <<R200>>, <<R200>>)

SpecVolatility == InitVolatility /\ [][NextVolatility]_vars

(***************************************************************************)
(* One call of fetch_coingecko_data, a response at a time                  *)
(***************************************************************************)
\* the call is entered: the mapping test, then max_retries / current_retry
FetchCall(symbol, days) ==
    /\ fpc = "idle"
    /\ fsymbol' = symbol
    /\ fdays' = days
    /\ current_retry' = 0
    /\ flog' = <<>>
    /\ fsleeps' = <<>>
    /\ fresult' = None
    /\ fpc' = IF Mapped(symbol) THEN "loop" ELSE "returned"
    /\ UNCHANGED <<tvars, api, pvars>>

\* one pass of the while loop: requests.get is answered by resp
FetchRequest(resp) ==
    /\ fpc = "loop"
    /\ current_retry < max_retries
    /\ LET r == FetchAttempt(current_retry, resp, api[fdays])
       IN /\ flog' = Append(flog, resp)
          /\ current_retry' = r.retry
          /\ fresult' = r.result
          /\ fsleeps' = IF r.ret THEN fsleeps ELSE Append(fsleeps, r.sleep)
          /\ fpc' = IF r.ret THEN "returned" ELSE "loop"
    /\ UNCHANGED <<fsymbol, fdays, tvars, api, pvars>>

\* the while condition fails: "Max retries reached", return None
FetchExhausted ==
    /\ fpc = "loop"
    /\ ~(current_retry < max_retries)
    /\ fpc' = "returned"
    /\ fresult' = None
    /\ UNCHANGED <<fsymbol, fdays, current_retry, flog, fsleeps, tvars, api, pvars>>

\* the caller has the value; the next call may start
FetchReturn ==
    /\ fpc = "returned"
    /\ fpc' = "idle"
    /\ UNCHANGED <<fsymbol, fdays, current_retry, flog, fsleeps, fresult, tvars, api, pvars>>

InitFetch ==
    /\ FetchIdle
    /\ TrackerIdle
    /\ table = {}
    /\ api \in ApiStates
    /\ PollerIdle

NextFetch ==
    \/ \E symbol \in Symbols, days \in Windows : FetchCall(symbol, days)
    \/ \E resp \in Responses : FetchRequest(resp)
    \/ FetchExhausted
    \/ FetchReturn

SpecFetch == InitFetch /\ [][NextFetch]_vars

(***************************************************************************)
(* The price poller: CryptoScraper.run                                     *)
(***************************************************************************)
InLoop == ppc \in {"fetch", "insert", "sleep", "errsleep"}

\* connect_to_db, then `if not conn: return`
PStart(ok) ==
    /\ ppc = "start"
    /\ IF ok
       THEN ppc' = "fetch" /\ pconn' = "open" /\ pevent' = "connected" /\ pexit' = pexit
       ELSE ppc' = "exited" /\ pconn' = "none" /\ pevent' = "connect_failed" /\ pexit' = "return"
    /\ UNCHANGED <<ptxn, prices, ticks, fvars, tvars, api>>

\* a tick begins: fetch_usdt_price returns the quote, or None after any
\* failure (HTTP error, undecodable payload, missing key)
PFetch(quote) ==
    /\ ppc = "fetch"
    /\ ticks < MaxTicks
    /\ ticks' = ticks + 1
    /\ IF quote
       THEN ppc' = "insert" /\ pevent' = "quote"
       ELSE ppc' = "sleep" /\ pevent' = "fetch_failed"
    /\ UNCHANGED <<pconn, ptxn, prices, pexit, fvars, tvars, api>>

\* faulty variant of the INSERT step: run() has no `except Exception`, a failed
\* INSERT leaves the loop
PInsertFatal(fault) ==
    /\ ppc = "insert"
    /\ IF pconn = "open" /\ ptxn = "idle" /\ fault = "none"
       THEN /\ prices' = prices + 1
            /\ ppc' = "sleep"
            /\ pevent' = "stored"
            /\ UNCHANGED <<pconn, ptxn>>
       ELSE /\ ppc' = "exited"
            /\ pevent' = "insert_failed"
            /\ pconn' = "closed"
            /\ UNCHANGED <<ptxn, prices>>
    /\ UNCHANGED <<ticks, pexit, fvars, tvars, api>>

\* the INSERT and the commit; an SQL error leaves the transaction aborted
\* (nothing rolls it back), a lost connection stays lost (nothing reconnects)
PInsert(fault) ==
    /\ ppc = "insert"
    /\ IF pconn = "open" /\ ptxn = "idle" /\ fault = "none"
       THEN /\ prices' = prices + 1
            /\ ppc' = "sleep"
            /\ pevent' = "stored"
            /\ UNCHANGED <<pconn, ptxn>>
       ELSE /\ ppc' = "errsleep"
            /\ pevent' = "insert_failed"
            /\ pconn' = IF fault = "conn" THEN "closed" ELSE pconn
            /\ ptxn' = IF pconn = "open" /\ fault # "conn" THEN "aborted" ELSE ptxn
            /\ UNCHANGED prices
    /\ UNCHANGED <<ticks, pexit, fvars, tvars, api>>

\* time.sleep(interval) is over, at line 85 or in the except clause at line 92
PSleep ==
    /\ ppc \in {"sleep", "errsleep"}
    /\ ppc' = "fetch"
    /\ pevent' = "slept"
    /\ UNCHANGED <<pconn, ptxn, prices, ticks, pexit, fvars, tvars, api>>

\* faulty variant of the interrupt step: the connection is closed after the
\* loop, not in a finally clause, so an interrupt raised in the except clause's
\* sleep leaves run() with the connection as it was
PInterruptNoFinally ==
    /\ InLoop
    /\ ppc' = "exited"
    /\ pconn' = IF ppc = "errsleep" THEN pconn ELSE "closed"
    /\ pevent' = "interrupt"
    /\ pexit' = IF ppc = "errsleep" THEN "raised" ELSE "break"
    /\ UNCHANGED <<ptxn, prices, ticks, fvars, tvars, api>>

\* KeyboardInterrupt in the quote fetch, the INSERT or the sleep of line 85 is
\* caught at line 87 (break); in the sleep of line 92, inside the except
\* clause, it is caught by nothing and leaves run() as an exception. Either
\* way the finally clause closes the connection.
PInterrupt ==
    /\ InLoop
    /\ ppc' = "exited"
    /\ pconn' = "closed"
    /\ pevent' = "interrupt"
    /\ pexit' = IF ppc = "errsleep" THEN "raised" ELSE "break"
    /\ UNCHANGED <<ptxn, prices, ticks, fvars, tvars, api>>

InitPoller ==
    /\ PollerIdle
    /\ TrackerIdle
    /\ table = {}
    /\ api = [w \in Windows |-> <<>>]
    /\ FetchIdle

NextPoller ==
    \/ \E ok \in BOOLEAN : PStart(ok)
    \/ \E quote \in BOOLEAN : PFetch(quote)
    \/ \E fault \in {"none", "sql", "conn"} : PInsert(fault)
    \/ PSleep
    \/ PInterrupt

SpecPoller == InitPoller /\ [][NextPoller]_vars

(***************************************************************************)
(* The claims                                                              *)
(***************************************************************************)
Fetched(r) == r.ohlc[1] # "seed"

\* C1: the table never holds two records of one asset on one calendar date,
\* whatever runs, faults and maintenance passes came before, also when one
\* fetched batch holds several candles of the same date.
C1_OneRecordPerAssetDate ==
    \A r1 \in table : \A r2 \in table :
        (r1.assetId = r2.assetId /\ r1.date = r2.date) => r1 = r2

\* C1 witness: a batch with two candles of today was stored, and the first of
\* them is the record of today
C1_Witness ==
    /\ last.outcome = "stored"
    /\ Len(api["30"]) = 2
    /\ DayOf(api["30"][1].ts) = DayOf(api["30"][2].ts)
    /\ \E r \in table : r.assetId = last.asset /\ r.ohlc = api["30"][1].ohlc

C3_RetryPolicy ==
    /\ Len(flog) <= 3
    /\ \A i \in 1..(Len(flog) - 1) : flog[i].status = 429
    /\ fpc = "loop" => \A i \in 1..Len(flog) : flog[i].status = 429
    /\ (fpc = "loop" /\ Len(flog) = 3) => ~ENABLED (\E resp \in Responses : FetchRequest(resp))
    /\ (fpc = "returned" /\ flog # <<>>) =>
          LET l == flog[Len(flog)]
          IN /\ (l.status = 200 /\ l.body = "ok") => fresult = Some(api[fdays])
             /\ (l.status = 200 /\ l.body # "ok") => fresult = None
             /\ l.status \notin {200, 429} => fresult = None
             /\ l.status = 429 => fresult = None

\* C3 witness: a call that returned nothing after three 429 responses
C3_Witness ==
    /\ fpc = "returned"
    /\ Len(flog) = 3
    /\ \A i \in 1..3 : flog[i].status = 429
    /\ fresult = None

\* what the claims call a failed asset: process_asset caught an exception,
\* or both fetches failed
Failed(o) == o \in {"rolled_back", "rollback_failed", "no_data"}

\* every mapped asset the loop has passed was attempted once, no asset twice,
\* an asset without mapping never; at the end of the loop every mapped one once
AttemptedOnce ==
    /\ mpc = "loop" =>
          \A a \in Assets :
              attempted[a[1]] = IF a[2] \in DOMAIN COIN_ID_MAP /\ a \notin todo THEN 1 ELSE 0
    /\ (mpc = "sched" /\ last.kind # "none") =>
          \A a \in Assets :
              attempted[a[1]] = IF a[2] \in DOMAIN COIN_ID_MAP THEN 1 ELSE 0

C5_FailedTickKeepsLoop ==
    [][/\ InLoop => (ppc' \in {"fetch", "insert", "sleep", "errsleep"} \/ pevent' = "interrupt")
       /\ (ppc = "fetch" /\ pevent' = "fetch_failed") => ppc' = "sleep"
       /\ (ppc = "insert" /\ pevent' = "insert_failed") => ppc' = "errsleep"
       /\ ppc \in {"sleep", "errsleep"} => (ppc' = "fetch" \/ pevent' = "interrupt")
      ]_vars

\* C5 witness: a tick failed at the INSERT, the poller slept and stands at the
\* start of the next tick
C5_Witness ==
    /\ ppc = "fetch"
    /\ pevent = "slept"
    /\ ptxn = "aborted"
    /\ ticks >= 1

\* C6: for every asset and range, get_missing_dates is exactly the dates of the
\* range on which the asset has no record.
C6_MissingDatesExact ==
    \A a \in AssetIds : \A s \in Dates : \A e \in Dates :
        get_missing_dates(table, a, s, e) =
            {d \in s..e : ~\E r \in table : r.assetId = a /\ r.date = d}

\* C6 witness: asset 1 has records on the second and the fourth date of a
\* four-day range and on no other, another asset has records too, and the
\* result is the first and the third date
C6_Witness ==
    /\ {r.date : r \in RowsOf(table, 1)} = {Today - 2, Today}
    /\ RowsOf(table, 2) # {}
    /\ {r.date : r \in RowsOf(table, 2)} # {Today - 2, Today}
    /\ get_missing_dates(table, 1, Today - 3, Today) = {Today - 3, Today - 1}

\* C7: a process_asset call leaves every row that existed in place and
\* unchanged, and every row it adds is a row of its asset on a date of the
\* missing-date set it computed.
C7_OnlyMissingDatesAdded ==
    [][\A a \in AssetIds :
          attempted'[a] = attempted[a] + 1 =>
              /\ table \subseteq table'
              /\ \A r \in table' \ table : r.assetId = a /\ r.date \in last'.missing
      ]_vars

\* C7 witness: rows were stored for an asset although the endpoint also held
\* a candle for a date the asset had a record of, and that record is unchanged
C7_Witness ==
    /\ last.outcome = "stored"
    /\ \E r \in RowsOf(table, last.asset) :
          /\ ~Fetched(r)
          /\ \E i \in 1..Len(api["365"]) : DayOf(api["365"][i].ts) = r.date
          /\ r.date \notin last.missing

\* C8: a process_asset call for an asset that has a record of today issues no
\* request and leaves the table as it was.
C8_TodayShortCircuit ==
    [][\A a \in AssetIds :
          (/\ attempted'[a] = attempted[a] + 1
           /\ \E r \in table : r.assetId = a /\ r.date = Today)
          => (table' = table /\ last'.requests = 0)
      ]_vars

\* C8 witness: a call that ended at the test for today's record
C8_Witness ==
    /\ last.kind = "processed"
    /\ last.outcome = "has_today"
    /\ \E r \in table : r.assetId = last.asset /\ r.date = Today

\* the answers of the endpoint that a call may be served, up to two of them
ShortScripts ==
    {<<r>> : r \in Responses} \cup {<<r1, r2>> : r1 \in Responses, r2 \in Responses}

\* fetch_coingecko_data on every symbol without mapping, every window content
\* and every script
UnmappedFetches ==
    {fetch_coingecko_data(sym, script, df) :
        sym \in Symbols \ DOMAIN COIN_ID_MAP,
        script \in ShortScripts,
        df \in Family("30") \cup Family("365")}

\* C9: for a symbol that is no key of COIN_ID_MAP fetch_coingecko_data returns
\* nothing and issues no request, and run() never calls process_asset, nor the
\* endpoint, for an asset with such a symbol.
C9_UnmappedNeverFetched ==
    /\ \A r \in UnmappedFetches : r.result = None /\ r.log = <<>>
    /\ \A a \in Assets :
          a[2] \notin DOMAIN COIN_ID_MAP =>
              /\ attempted[a[1]] = 0
              /\ last.asset = a[1] => (last.kind = "skipped" /\ last.requests = 0)

\* C9 witness: the loop of run() met the asset without mapping and passed it
C9_Witness ==
    /\ last.asset = 3
    /\ last.kind = "skipped"
    /\ \E r \in table : Fetched(r)

\* C10 as claimed: no connectivity failure, the first connection attempt
\* included, ends the process of either job (the poller ends by interrupt only).
C10_AsClaimed ==
    /\ mpc # "crashed"
    /\ ppc = "exited" => pevent = "interrupt"

\* C11: an interrupt can arrive at every point of a tick (the quote fetch, the
\* INSERT, either sleep); after it the loop has ended and the connection is
\* closed, whether run() was left by the break or by the exception that
\* propagates from the except clause's sleep.
C11_InterruptClosesConnection ==
    /\ InLoop => ENABLED PInterrupt
    /\ pevent = "interrupt" =>
          (ppc = "exited" /\ pconn = "closed" /\ pexit \in {"break", "raised"})

\* C11 witness: the interrupt arrived in the sleep of the error handler, after
\* a failed INSERT, and the connection is closed
C11_Witness ==
    /\ pevent = "interrupt"
    /\ pexit = "raised"
    /\ pconn = "closed"
    /\ ptxn = "aborted"

\* C12 as claimed: every wait lasts the Retry-After value of the 429 it follows
\* (60 when the header is absent) and is followed by another request: a call
\* that has returned issued more requests than it slept.
C12_AsClaimed ==
    /\ Len(fsleeps) <= Len(flog)
    /\ \A i \in 1..Len(fsleeps) :
          /\ flog[i].status = 429
          /\ fsleeps[i] = IF flog[i].retry_after = "5" THEN 5 ELSE 60
    /\ (fpc = "returned" /\ flog # <<>>) => Len(fsleeps) < Len(flog)

\* the tables process_asset can build from what the endpoint holds: each fetch
\* returned its window or nothing, and at least one returned
CombinedTables ==
    {concat_drop_duplicates(r30, r365) :
        r30 \in {Some(api["30"]), None}, r365 \in {Some(api["365"]), None}}
    \ {<<>>}

\* C13 as claimed: when process_asset has built its table, the concatenated
\* and deduplicated table has one row per calendar date, whatever the two
\* windows hold, candles finer than a day included.
C13_AsClaimed ==
    last.outcome \in {"stored", "nothing_new", "no_missing"} =>
        \A df \in CombinedTables :
            \A i \in 1..Len(df) : \A j \in 1..Len(df) :
                DayOf(df[i].ts) = DayOf(df[j].ts) => i = j

\* C14 as claimed: run() executes no maintenance pass, so no run() is kept
\* from its assets by a maintenance pass that failed.
C14_AsClaimed ==
    /\ maint \notin {"fault", "raised"}
    /\ maint # "done"

\* the backfill of the error metric: the rows with mse IS NULL get the metric
\* computed from their OHLC, by (assetId, date)
BulkUpdateMse(tbl) ==
    LET nulls == {r \in tbl : r.mse = NullMse}
        hit(r) == \E n \in nulls : n.assetId = r.assetId /\ n.date = r.date
    IN {IF hit(r) THEN [r EXCEPT !.mse = calculate_daily_mse(r.ohlc)] ELSE r : r \in tbl}

\* C15 as claimed: an update_missing_mse pass that meets no database fault
\* returns; it has set the error metric of every row that had none, from the
\* row's OHLC, and changed no other field and no other row.
C15_AsClaimed ==
    [][(mpc = "run" /\ maint' # "fault") =>
          (maint' = "done" /\ table' = BulkUpdateMse(table))
      ]_vars

\* C16 as claimed: after store_volatility_data has appended rows for an asset,
\* every row of the asset, old and new, carries the kurtosis of the asset's
\* entire stored volatility series.
C16_AsClaimed ==
    last.outcome = "stored" =>
        LET rows == RowsOf(table, last.asset)
        IN \A r \in rows : r.kurtosis = kurtosis({x.volatility : x \in rows})

\* rows stored from a candle with explicit prices
PxStored == {r \in table : r.ohlc[1] = "px"}
\* open, high, low, close all > 0
Positive(ohlc) == \A i \in 2..5 : ohlc[i].sign = 1
\* low <= open, close <= high
Ordered(ohlc) ==
    /\ ohlc[4].e <= ohlc[2].e /\ ohlc[2].e <= ohlc[3].e
    /\ ohlc[4].e <= ohlc[5].e /\ ohlc[5].e <= ohlc[3].e

\* C17 as claimed: no row is stored from a fetched candle in which open, high,
\* low or close is zero or negative, and no stored volatility is undefined.
C17_AsClaimed ==
    \A r \in PxStored : Positive(r.ohlc) /\ r.volatility.real

\* C18 as claimed: for every row with open, high, low, close > 0, no ordering
\* assumed, the volatility is a real number.
C18_AsClaimed ==
    \A r \in PxStored : Positive(r.ohlc) => r.volatility.real

\* C18 amended: for every row with 0 < low <= open, close <= high the
\* volatility is a real number, the quantity under the square root being
\* T * (term1 + term2) >= 0; and a row of positive values has a real
\* volatility exactly when that quantity is not negative.
C18_RealWhenOrdered ==
    \A r \in PxStored :
        LET open == r.ohlc[2].e
            high == r.ohlc[3].e
            low == r.ohlc[4].e
            close == r.ohlc[5].e
            sum == (high - close) * (high - open) + (low - close) * (low - open)
        IN /\ (Positive(r.ohlc) /\ Ordered(r.ohlc)) =>
                 (sum >= 0 /\ r.volatility = [real |-> TRUE, val |-> <<"sqrt", T * sum>>])
           /\ Positive(r.ohlc) => (r.volatility.real <=> sum >= 0)

\* C18 witness: a stored row with low < open = close < high, whose volatility
\* is the non-zero real sqrt(T * 2) (in units of ln 2)
C18_Witness ==
    \E r \in PxStored :
        /\ Positive(r.ohlc) /\ Ordered(r.ohlc)
        /\ r.ohlc[4].e < r.ohlc[2].e /\ r.ohlc[2].e < r.ohlc[3].e
        /\ r.ohlc[5] = r.ohlc[2]
        /\ r.volatility = [real |-> TRUE, val |-> <<"sqrt", T * 2>>]

\* C19 as claimed: when a tick ends (either sleep) its transaction has been
\* committed or rolled back, also after a failed INSERT; so a tick whose quote
\* fetch succeeded can insert and commit one PriceData row.
C19_AsClaimed ==
    /\ ppc \in {"sleep", "errsleep"} => ptxn = "idle"
    /\ (ppc = "insert" /\ pconn = "open") =>
          ENABLED (PInsert("none") /\ prices' = prices + 1)

\* the timestamps both windows hold a candle for
SharedTimestamps ==
    {api["30"][i].ts : i \in 1..Len(api["30"])}
        \cap {api["365"][j].ts : j \in 1..Len(api["365"])}

\* C20: both fetches succeeding, of two candles with the same timestamp the
\* deduplicated table keeps the one of the 30-day window and drops the one of
\* the 365-day window, and no row is ever stored from the dropped one.
C20_NarrowWindowKept ==
    LET df == concat_drop_duplicates(Some(api["30"]), Some(api["365"]))
        kept == {df[i] : i \in 1..Len(df)}
    IN /\ \A i \in 1..Len(api["30"]) : \A j \in 1..Len(api["365"]) :
             api["30"][i].ts = api["365"][j].ts =>
                 (api["30"][i] \in kept /\ api["365"][j] \notin kept)
       /\ \A r \in table : \A ts \in SharedTimestamps : r.ohlc # <<"365", ts>>

\* C20 witness: both windows hold a candle of the same timestamp, an asset was
\* processed with both fetches answered, and its stored row of that timestamp
\* has the values of the 30-day candle
C20_Witness ==
    /\ last.outcome = "stored"
    /\ last.requests = 2
    /\ \E ts \in SharedTimestamps :
          \E r \in RowsOf(table, last.asset) : r.ohlc = <<"30", ts>>

\* the dates an asset has a record of
RecordedDates(tbl, a) == {r.date : r \in RowsOf(tbl, a)}

\* C21: a process_asset call for an asset that has records inserts only rows
\* dated after the asset's latest recorded date and not after today; and no
\* step of any run gives a record to a date that lies before the latest
\* recorded date of its asset and had none.
C21_OnlyAfterLatestDate ==
    [][/\ \A a \in AssetIds :
             (attempted'[a] = attempted[a] + 1 /\ RecordedDates(table, a) # {}) =>
                 \A r \in table' \ table :
                     /\ r.assetId = a
                     /\ r.date > SetMax(RecordedDates(table, a))
                     /\ r.date <= Today
       /\ \A a \in AssetIds : \A d \in Dates :
             (/\ RecordedDates(table, a) # {}
              /\ d < SetMax(RecordedDates(table, a))
              /\ d \notin RecordedDates(table, a))
             => d \notin RecordedDates(table', a)
      ]_vars

\* C21 witness: an asset with a record of yesterday and none of the day
\* before was processed; the endpoint held a candle of that earlier day and
\* one of today; today's row was stored and the earlier day is still missing
C21_Witness ==
    /\ last.outcome = "stored"
    /\ \E r \in RowsOf(table, last.asset) : r.date = Today - 1 /\ ~Fetched(r)
    /\ \E r \in RowsOf(table, last.asset) : r.date = Today /\ Fetched(r)
    /\ Today - 2 \notin RecordedDates(table, last.asset)
    /\ \E i \in 1..Len(api["365"]) : DayOf(api["365"][i].ts) = Today - 2

====
